---- MODULE Spec2Model ----
(***************************************************************************)
(* Model of build.rs: the two error handlers that the lexer builder and    *)
(* the parser builder call back into (AriadneLexErrorHandler and           *)
(* AriadneGrammarErrorHandler), and the helper pidx_prods_data.            *)
(*                                                                         *)
(* A String is a sequence of string fragments, an Option is a sequence of  *)
(* length 0 (None) or 1 (Some), a Vec is a sequence.  The text ariadne     *)
(* writes for a report is one Rendered piece that carries the report and   *)
(* the (path, src) pair the renderer fetches the source excerpt from.      *)
(***************************************************************************)
EXTENDS Integers, Sequences, FiniteSets, TLC

\* Number of handler calls explored in one build.
MaxCalls == 3

LEX_FILENAME == "erroneous.l"
YACC_FILENAME == "erroneous.y"

None == <<>>
Some(x) == <<x>>

Span(s, e) == [start |-> s, end |-> e]

--------------------------------------------------------------------------
(* Inputs handed to the handlers by the builders.                          *)

\* Values of lexer_path / grammar_path and lexer_src / grammar_src.
LexPaths == {LEX_FILENAME}
GrammarPaths == {YACC_FILENAME}
Sources == {"%%"}

\* A LexBuildError / YaccGrammarError / YaccGrammarWarning: its Display text
\* and its spans (Spanned::spans always holds at least one span).
LexBuildErrors ==
    { [msg |-> "lex error 1", spans |-> <<Span(3, 4)>>],
      [msg |-> "lex error 2", spans |-> <<Span(7, 9), Span(1, 2)>>] }

YaccGrammarErrors ==
    { [msg |-> "grammar error 1", spans |-> <<Span(2, 5)>>],
      [msg |-> "grammar error 2", spans |-> <<Span(8, 9), Span(0, 1)>>] }

YaccGrammarWarnings ==
    { [msg |-> "grammar warning 1", spans |-> <<Span(4, 6)>>],
      [msg |-> "grammar warning 2", spans |-> <<Span(6, 7), Span(2, 3)>>] }

\* The slices passed in one call: every list without repetition.
ListsOf(S) ==
    {<<>>} \cup { <<a>> : a \in S }
           \cup ({ <<a, b>> : a \in S, b \in S } \ { <<a, a>> : a \in S })

\* The HashSet<String> of missing_in_lexer / missing_in_parser, given by the
\* order its iterator yields the names (the same for every iteration of one
\* unmodified set).
TokenNames == {"NUM", "ID"}
MissingSets == ListsOf(TokenNames)

--------------------------------------------------------------------------
(* Reports.                                                                *)

Label(src_id, span, text) == [src_id |-> src_id, span |-> span, text |-> text]

\* ariadne::Report::build(kind, src_id, offset).with_message(msg) ... finish()
Report(kind, src_id, offset, msg, labels, note) ==
    [kind |-> kind, src_id |-> src_id, offset |-> offset, msg |-> msg,
     labels |-> labels, note |-> note]

\* Pieces of output text.
Lit(s) == [lit |-> s, rep |-> <<>>, path |-> "", src |-> ""]
\* Report::write(&mut srcs, &mut x) with srcs = ariadne::sources([(path, src)]).
Rendered(r, path, src) == [lit |-> "", rep |-> <<r>>, path |-> path, src |-> src]

RECURSIVE WriteAll(_, _, _)
WriteAll(rs, path, src) ==
    IF rs = <<>> THEN <<>>
    ELSE <<Rendered(Head(rs), path, src)>> \o WriteAll(Tail(rs), path, src)

\* Vec::push of each report of rs, in order, onto the vector v.
PushAll_Overwrite(v, rs) == rs
PushAll(v, rs) == v \o rs

Ok == [ok |-> TRUE, body |-> <<>>]
Err(body) == [ok |-> FALSE, body |-> body]

--------------------------------------------------------------------------
VARIABLES
    l_src, l_path, reports,                       \* AriadneLexErrorHandler
    g_src, g_path, err_reports, warning_reports,  \* AriadneGrammarErrorHandler
    errors, warnings, warnings_are_errors,
    handler,       \* the handler object this behaviour follows
    panicked,      \* a handler call panicked: the build is aborted
    ncalls,        \* number of handler calls made
    done,          \* history: the kinds of call made so far
    prods_data,    \* history: what the pidx_prods_data calls of the last
                   \* on_unexpected_conflicts returned, as <<pidx, names, spans>>
    prev_op,       \* history: the call made before the last one
    last           \* history: the last call, its arguments and return value

lvars == <<l_src, l_path, reports>>
gvars == <<g_src, g_path, err_reports, warning_reports, errors, warnings,
           warnings_are_errors>>
vars == <<l_src, l_path, reports, g_src, g_path, err_reports, warning_reports,
          errors, warnings, warnings_are_errors, handler, panicked, ncalls, done,
          prods_data, prev_op, last>>

Call(op, errs, names, rr, sr, ret) ==
    [op |-> op, errs |-> errs, names |-> names, rr |-> rr, sr |-> sr, ret |-> ret]

\* Bookkeeping common to every call that returns.
Returned(op, errs, names, rr, sr, ret, tags) ==
    /\ ncalls' = ncalls + 1
    /\ last' = Call(op, errs, names, rr, sr, ret)
    /\ done' = done \cup tags
    /\ panicked' = FALSE
    /\ prods_data' = <<>>
    /\ prev_op' = last.op
    /\ handler' = handler

\* The two handlers are separate objects that share no field: a behaviour
\* follows the calls made on one of them.
CanCall(h) == handler = h /\ ~panicked /\ ncalls < MaxCalls

Init ==
    /\ l_src = ""
    /\ l_path = ""
    /\ reports = <<>>
    /\ g_src = ""
    /\ g_path = ""
    /\ errors = <<>>
    /\ warnings = <<>>
    /\ warnings_are_errors = FALSE
    /\ err_reports = <<>>
    /\ warning_reports = <<>>
    /\ handler \in {"lexer", "grammar"}
    /\ panicked = FALSE
    /\ ncalls = 0
    /\ done = {}
    /\ prods_data = <<>>
    /\ prev_op = "new"
    /\ last = Call("new", <<>>, <<>>, <<>>, <<>>, Ok)

--------------------------------------------------------------------------
(* AriadneLexErrorHandler                                                  *)

lexer_path ==
    \E p \in LexPaths :
        /\ CanCall("lexer")
        /\ l_path' = p
        /\ Returned("lexer_path", <<>>, <<>>, <<>>, <<>>, Ok, {})
        /\ UNCHANGED <<l_src, reports, gvars>>

lexer_src ==
    \E s \in Sources :
        /\ CanCall("lexer")
        /\ l_src' = s
        /\ Returned("lexer_src", <<>>, <<>>, <<>>, <<>>, Ok, {})
        /\ UNCHANGED <<l_path, reports, gvars>>

\* The reports pushed by the loop of on_lex_build_error.
RECURSIVE LexErrorReports(_, _)
LexErrorReports(path_name, errs) ==
    IF errs = <<>> THEN <<>>
    ELSE LET err == Head(errs)
             span == Head(err.spans)
         IN <<Report("Error", path_name, span.start, err.msg, <<>>, None)>>
            \o LexErrorReports(path_name, Tail(errs))

on_lex_build_error ==
    \E errs \in ListsOf(LexBuildErrors) :
        /\ CanCall("lexer")
        /\ reports' = PushAll(reports, LexErrorReports(l_path, errs))
        /\ Returned("on_lex_build_error", errs, <<>>, <<>>, <<>>, Ok,
                    IF errs = <<>> THEN {} ELSE {"lex_error"})
        /\ UNCHANGED <<l_src, l_path, gvars>>

MISSING_IN_LEXER_MSG ==
    "The following tokens are used in the grammar but are not defined in the lexer:"
MISSING_IN_PARSER_MSG ==
    "The following tokens are used in the lexer but are not defined in the grammar"

\* for n in missing { note.push_str(format!(", {}", n)) }
RECURSIVE PushNames(_, _)
PushNames(note, missing) ==
    IF missing = <<>> THEN note
    ELSE PushNames(note \o <<", ", Head(missing)>>, Tail(missing))

\* The note of a missing-token report: String::from(iter.next().unwrap()),
\* then the loop over the whole set.
MissingNote_FirstOnly(missing) ==
    IF missing # <<>> THEN Some(<<Head(missing)>>) ELSE None
MissingNote(missing) ==
    IF missing # <<>> THEN Some(PushNames(<<Head(missing)>>, missing))
    ELSE None

missing_in_lexer ==
    \E missing \in MissingSets :
        /\ CanCall("lexer")
        /\ reports' = PushAll(reports,
              <<Report("Error", l_path, 0, MISSING_IN_LEXER_MSG, <<>>,
                       MissingNote(missing))>>)
        /\ Returned("missing_in_lexer", <<>>, missing, <<>>, <<>>, Ok,
                    {"missing_in_lexer"} \cup
                    (IF missing = <<>> THEN {} ELSE {"missing_in_lexer_names"}))
        /\ UNCHANGED <<l_src, l_path, gvars>>

missing_in_parser ==
    \E missing \in MissingSets :
        /\ CanCall("lexer")
        /\ reports' = PushAll(reports,
              <<Report("Error", l_path, 0, MISSING_IN_PARSER_MSG, <<>>,
                       MissingNote(missing))>>)
        /\ Returned("missing_in_parser", <<>>, missing, <<>>, <<>>, Ok,
                    {"missing_in_parser"} \cup
                    (IF missing = <<>> THEN {} ELSE {"missing_in_parser_names"}))
        /\ UNCHANGED <<l_src, l_path, gvars>>

\* AriadneLexErrorHandler::results
LexResults_AlwaysErr(rs, path, src) == Err(WriteAll(rs, path, src))
LexResults(rs, path, src) ==
    IF rs = <<>> THEN Ok
    ELSE Err(WriteAll(rs, path, src))

\* A results() that drains the recorded reports as it renders them.
lex_results_Draining ==
    /\ CanCall("lexer")
    /\ Returned("lex_results", <<>>, <<>>, <<>>, <<>>,
                LexResults(reports, l_path, l_src), {"lex_results"})
    /\ reports' = <<>>
    /\ UNCHANGED <<l_src, l_path, gvars>>

lex_results ==
    /\ CanCall("lexer")
    /\ Returned("lex_results", <<>>, <<>>, <<>>, <<>>,
                LexResults(reports, l_path, l_src), {"lex_results"})
    /\ UNCHANGED <<lvars, gvars>>

--------------------------------------------------------------------------
(* The grammar handed to on_unexpected_conflicts.                          *)

\* GrammarAST: the productions written in the .y file, each an ordered list
\* of ast::Symbol::Rule(name, span) / ast::Symbol::Token(name, span).
Ast ==
    [prods |-> <<
        [symbols |-> << [tag |-> "Token", name |-> "x", span |-> Span(12, 13)],
                        [tag |-> "Rule",  name |-> "B", span |-> Span(14, 15)] >>],
        [symbols |-> << >>],
        [symbols |-> << [tag |-> "Token", name |-> "y", span |-> Span(24, 25)] >>]
     >>]

\* YaccGrammar: productions 0 and 1 belong to rule A, production 2 to rule B,
\* and production 3 is the start production the grammar adds to the AST's
\* productions (rule ^).  Token 2 is the EOF token, which has neither a name
\* nor a span.
Grm ==
    [prod_to_rule   |-> <<0, 0, 1, 2>>,
     rule_name_span |-> <<Span(10, 11), Span(20, 21), Span(0, 0)>>,
     rule_name_str  |-> <<"A", "B", "^">>,
     token_name     |-> <<Some("x"), Some("y"), None>>,
     token_span     |-> <<Some(Span(2, 3)), Some(Span(4, 5)), None>>]

\* Indices are 0-based in the program and sequences 1-based here.
prod_to_rule(grm, pidx) == grm.prod_to_rule[pidx + 1]
rule_name_span(grm, ridx) == grm.rule_name_span[ridx + 1]
rule_name_str(grm, ridx) == grm.rule_name_str[ridx + 1]
token_name(grm, tidx) == grm.token_name[tidx + 1]
token_span(grm, tidx) == grm.token_span[tidx + 1]

\* Conflicts: rr_conflicts() yields (PIdx, PIdx, StIdx), sr_conflicts()
\* yields (TIdx, PIdx, StIdx), each in the order of the state table.
\* The shift/reduce conflict on token 2 is one whose token has no span.
RRLists == { <<>>, << <<0, 1, 5>> >>, << <<2, 3, 6>>, <<0, 1, 5>> >> }
SRLists == { <<>>, << <<0, 0, 7>> >>, << <<1, 2, 8>>, <<0, 0, 7>> >>,
             << <<2, 1, 9>> >>, << <<0, 0, 7>>, <<2, 1, 9>>, <<1, 2, 8>> >> }
ConflictSets == [rr : RRLists, sr : SRLists]

RECURSIVE MapSymbols(_, _)
MapSymbols(symbols, field) ==
    IF symbols = <<>> THEN <<>>
    ELSE LET sym == Head(symbols)
         IN <<IF field = "name" THEN <<"'", sym.name, "'">> ELSE sym.span>>
            \o MapSymbols(Tail(symbols), field)

pidx_prods_data_OffByOne(ast, pidx) ==
    IF pidx < Len(ast.prods) - 1
    THEN LET prod == ast.prods[pidx + 1]
         IN <<MapSymbols(prod.symbols, "name"), MapSymbols(prod.symbols, "span")>>
    ELSE << <<>>, <<>> >>
pidx_prods_data(ast, pidx) ==
    IF pidx < Len(ast.prods)
    THEN LET prod == ast.prods[pidx + 1]
         IN <<MapSymbols(prod.symbols, "name"), MapSymbols(prod.symbols, "span")>>
    ELSE << <<>>, <<>> >>

--------------------------------------------------------------------------
(* AriadneGrammarErrorHandler                                              *)

set_warnings_are_errors ==
    \E flag \in BOOLEAN :
        /\ CanCall("grammar")
        /\ warnings_are_errors' = flag
        /\ Returned("warnings_are_errors", <<>>, <<>>, <<>>, <<>>, Ok, {})
        /\ UNCHANGED <<lvars, g_src, g_path, err_reports, warning_reports,
                       errors, warnings>>

grammar_src ==
    \E s \in Sources :
        /\ CanCall("grammar")
        /\ g_src' = s
        /\ Returned("grammar_src", <<>>, <<>>, <<>>, <<>>, Ok, {})
        /\ UNCHANGED <<lvars, g_path, err_reports, warning_reports, errors,
                       warnings, warnings_are_errors>>

grammar_path ==
    \E p \in GrammarPaths :
        /\ CanCall("grammar")
        /\ g_path' = p
        /\ Returned("grammar_path", <<>>, <<>>, <<>>, <<>>, Ok, {})
        /\ UNCHANGED <<lvars, g_src, err_reports, warning_reports, errors,
                       warnings, warnings_are_errors>>

\* The reports pushed by the loops of on_grammar_warning / on_grammar_error.
RECURSIVE GrammarReports(_, _, _)
GrammarReports(kind, path_name, xs) ==
    IF xs = <<>> THEN <<>>
    ELSE LET x == Head(xs)
             span == Head(x.spans)
         IN <<Report(kind, path_name, span.start, x.msg, <<>>, None)>>
            \o GrammarReports(kind, path_name, Tail(xs))

on_grammar_warning ==
    \E ws \in ListsOf(YaccGrammarWarnings) :
        /\ CanCall("grammar")
        /\ warning_reports' =
              PushAll(warning_reports, GrammarReports("Warning", g_path, ws))
        /\ Returned("on_grammar_warning", ws, <<>>, <<>>, <<>>, Ok,
                    IF ws = <<>> THEN {} ELSE {"grammar_warning"})
        /\ UNCHANGED <<lvars, g_src, g_path, err_reports, errors, warnings,
                       warnings_are_errors>>

on_grammar_error ==
    \E errs \in ListsOf(YaccGrammarErrors) :
        /\ CanCall("grammar")
        /\ err_reports' =
              PushAll(err_reports, GrammarReports("Error", g_path, errs))
        /\ Returned("on_grammar_error", errs, <<>>, <<>>, <<>>, Ok,
                    IF errs = <<>> THEN {} ELSE {"grammar_error"})
        /\ UNCHANGED <<lvars, g_src, g_path, warning_reports, errors, warnings,
                       warnings_are_errors>>

\* The report of one iteration of the reduce/reduce loop.
RRReport_Swapped(grm, path_name, c) ==
    LET r1_span == rule_name_span(grm, prod_to_rule(grm, c[1]))
        r2_span == rule_name_span(grm, prod_to_rule(grm, c[2]))
    IN Report("Error", path_name, r1_span.start, "Reduce/Reduce",
              << Label(path_name, r2_span, "1st Reduce"),
                 Label(path_name, r1_span, "2nd Reduce") >>, None)
RRReport(grm, path_name, c) ==
    LET r1_rule_idx == prod_to_rule(grm, c[1])
        r2_rule_idx == prod_to_rule(grm, c[2])
        r1_span == rule_name_span(grm, r1_rule_idx)
        r2_span == rule_name_span(grm, r2_rule_idx)
    IN Report("Error", path_name, r1_span.start, "Reduce/Reduce",
              << Label(path_name, r1_span, "1st Reduce"),
                 Label(path_name, r2_span, "2nd Reduce") >>, None)

RECURSIVE ProductionLabels(_, _)
ProductionLabels(path_name, spans) ==
    IF spans = <<>> THEN <<>>
    ELSE <<Label(path_name, Head(spans), "Reduced production")>>
         \o ProductionLabels(path_name, Tail(spans))

\* An iteration of the shift/reduce loop panics on the unwrap of a None.
SRPanics(grm, c) == token_span(grm, c[1]) = None \/ token_name(grm, c[1]) = None

\* The report of one iteration of the shift/reduce loop that does not panic.
SRReport_RuleFirst(ast, grm, path_name, c) ==
    LET s_tok_span == Head(token_span(grm, c[1]))
        r_prod_spans == pidx_prods_data(ast, c[2])[2]
        rule_span == rule_name_span(grm, prod_to_rule(grm, c[2]))
    IN Report("Error", path_name, rule_span.start, "Shift/Reduce",
              << Label(path_name, rule_span, "Reduced rule"),
                 Label(path_name, s_tok_span, "Shifted") >>
              \o ProductionLabels(path_name, r_prod_spans), None)
SRReport(ast, grm, path_name, c) ==
    LET s_tok_span == Head(token_span(grm, c[1]))
        r_prod_spans == pidx_prods_data(ast, c[2])[2]
        rule_idx == prod_to_rule(grm, c[2])
        rule_span == rule_name_span(grm, rule_idx)
    IN Report("Error", path_name, rule_span.start, "Shift/Reduce",
              << Label(path_name, s_tok_span, "Shifted"),
                 Label(path_name, rule_span, "Reduced rule") >>
              \o ProductionLabels(path_name, r_prod_spans), None)

RECURSIVE RRLoop(_, _, _)
RRLoop(grm, path_name, rr) ==
    IF rr = <<>> THEN <<>>
    ELSE <<RRReport(grm, path_name, Head(rr))>> \o RRLoop(grm, path_name, Tail(rr))

\* The reports the shift/reduce loop pushes before it ends or panics.
RECURSIVE SRLoop(_, _, _, _)
SRLoop(ast, grm, path_name, sr) ==
    IF sr = <<>> \/ SRPanics(grm, Head(sr)) THEN <<>>
    ELSE <<SRReport(ast, grm, path_name, Head(sr))>>
         \o SRLoop(ast, grm, path_name, Tail(sr))

SRLoopPanics(grm, sr) == \E i \in 1..Len(sr) : SRPanics(grm, sr[i])

\* The pidx_prods_data calls of the two loops, in order: two for each
\* reduce/reduce conflict, one for each shift/reduce iteration that gets
\* past its unwraps.
ProdsCall(ast, pidx) ==
    <<pidx, pidx_prods_data(ast, pidx)[1], pidx_prods_data(ast, pidx)[2]>>
RECURSIVE RRProdsCalls(_, _)
RRProdsCalls(ast, rr) ==
    IF rr = <<>> THEN <<>>
    ELSE <<ProdsCall(ast, Head(rr)[1]), ProdsCall(ast, Head(rr)[2])>>
         \o RRProdsCalls(ast, Tail(rr))
RECURSIVE SRProdsCalls(_, _, _)
SRProdsCalls(ast, grm, sr) ==
    IF sr = <<>> \/ SRPanics(grm, Head(sr)) THEN <<>>
    ELSE <<ProdsCall(ast, Head(sr)[2])>> \o SRProdsCalls(ast, grm, Tail(sr))

\* errors.push('\n') when the reduce/reduce loop ran at least once.
PushNewline_Always(text, rr) == Append(text, "\n")
PushNewline(text, rr) == IF rr # <<>> THEN Append(text, "\n") ELSE text

on_unexpected_conflicts ==
    \E c \in ConflictSets :
        /\ CanCall("grammar")
        /\ err_reports' = PushAll(PushAll(err_reports, RRLoop(Grm, g_path, c.rr)),
                                   SRLoop(Ast, Grm, g_path, c.sr))
        /\ errors' = PushNewline(errors, c.rr)
        /\ ncalls' = ncalls + 1
        /\ last' = Call("on_unexpected_conflicts", <<>>, <<>>, c.rr, c.sr, Ok)
        /\ done' = done \cup (IF c.rr = <<>> THEN {} ELSE {"rr_conflict"})
                        \cup (IF c.sr = <<>> THEN {} ELSE {"sr_conflict"})
        /\ panicked' = SRLoopPanics(Grm, c.sr)
        /\ prods_data' = RRProdsCalls(Ast, c.rr) \o SRProdsCalls(Ast, Grm, c.sr)
        /\ prev_op' = last.op
        /\ handler' = handler
        /\ UNCHANGED <<lvars, g_src, g_path, warning_reports, warnings,
                       warnings_are_errors>>

\* AriadneGrammarErrorHandler::results
GrammarResults_WarningsFatal(errs, warns, ers, wrs, path, src) ==
    IF errs = <<>> /\ wrs = <<>> THEN Ok
    ELSE Err(<<Lit("\n")>> \o WriteAll(wrs, path, src) \o WriteAll(ers, path, src))
\* A results() that decides on the recorded error reports.
GrammarResults_OnReports(errs, warns, ers, wrs, path, src) ==
    IF ers = <<>> THEN Ok
    ELSE Err(<<Lit("\n")>> \o WriteAll(ers, path, src))
GrammarResults(errs, warns, ers, wrs, path, src) ==
    IF errs = <<>> THEN Ok
    ELSE IF warns = <<>> THEN Err(<<Lit("\n")>> \o WriteAll(ers, path, src))
    ELSE Err(<<Lit("\nWarnings:\n")>> \o WriteAll(wrs, path, src)
             \o <<Lit("\n\nErrors:\n")>> \o WriteAll(ers, path, src)
             \o <<Lit("\n")>>)

\* A results() that drains the recorded reports as it renders them.
grammar_results_Draining ==
    /\ CanCall("grammar")
    /\ Returned("grammar_results", <<>>, <<>>, <<>>, <<>>,
                GrammarResults(errors, warnings, err_reports, warning_reports,
                               g_path, g_src), {"grammar_results"})
    /\ err_reports' = <<>>
    /\ warning_reports' = <<>>
    /\ UNCHANGED <<lvars, g_src, g_path, errors, warnings, warnings_are_errors>>

grammar_results ==
    /\ CanCall("grammar")
    /\ Returned("grammar_results", <<>>, <<>>, <<>>, <<>>,
                GrammarResults(errors, warnings, err_reports, warning_reports,
                               g_path, g_src), {"grammar_results"})
    /\ UNCHANGED <<lvars, gvars>>

--------------------------------------------------------------------------
Next ==
    \/ lexer_path
    \/ lexer_src
    \/ on_lex_build_error
    \/ missing_in_lexer
    \/ missing_in_parser
    \/ lex_results
    \/ set_warnings_are_errors
    \/ grammar_src
    \/ grammar_path
    \/ on_grammar_warning
    \/ on_grammar_error
    \/ on_unexpected_conflicts
    \/ grammar_results

Spec == Init /\ [][Next]_vars
--------------------------------------------------------------------------
(* Properties.                                                             *)

Elems(seq) == { seq[i] : i \in 1..Len(seq) }
IsPrefix(a, b) == Len(a) <= Len(b) /\ SubSeq(b, 1, Len(a)) = a
\* The reports a body renders, in order.
RECURSIVE ReportsIn(_)
ReportsIn(body) ==
    IF body = <<>> THEN <<>>
    ELSE Head(body).rep \o ReportsIn(Tail(body))

GrammarErrorTags == {"grammar_error", "rr_conflict", "sr_conflict"}
LexRecordTags == {"lex_error", "missing_in_lexer", "missing_in_parser"}

\* C1: for the grammar handler, once on_grammar_error was called with a
\* non-empty error list, results() returns Err.
C1_GrammarErrorIsFatal ==
    (last.op = "grammar_results" /\ "grammar_error" \in done) => ~last.ret.ok

\* C2: for the grammar handler, once on_unexpected_conflicts was called with
\* at least one conflict of either kind, results() returns Err.
C2_ConflictIsFatal ==
    (last.op = "grammar_results"
        /\ ("rr_conflict" \in done \/ "sr_conflict" \in done))
    => ~last.ret.ok

\* C3: with only warnings recorded and warnings_are_errors set, results()
\* returns Err and its body holds the rendered warnings.
C3_WarningsAreErrors ==
    (last.op = "grammar_results" /\ "grammar_warning" \in done
        /\ done \cap GrammarErrorTags = {} /\ warnings_are_errors)
    => (~last.ret.ok /\ ReportsIn(last.ret.body) = warning_reports)

\* C4: with only warnings recorded (any number of them) and
\* warnings_are_errors false, results() returns Ok.
C4_WarningsOnlyOk ==
    (last.op = "grammar_results" /\ "grammar_warning" \in done
        /\ done \cap GrammarErrorTags = {} /\ ~warnings_are_errors)
    => last.ret = Ok

C4_Witness ==
    /\ last.op = "grammar_results"
    /\ Len(warning_reports) >= 2
    /\ done \cap GrammarErrorTags = {}
    /\ ~warnings_are_errors
    /\ last.ret = Ok

\* C5: with at least one error and at least one warning recorded, results()
\* returns Err whose body is a "Warnings:" section with the rendered
\* warnings followed by an "Errors:" section with the rendered errors.
C5_CombinedBody ==
    (last.op = "grammar_results" /\ "grammar_error" \in done
        /\ "grammar_warning" \in done)
    => /\ ~last.ret.ok
       /\ last.ret.body =
            <<Lit("\nWarnings:\n")>> \o WriteAll(warning_reports, g_path, g_src)
            \o <<Lit("\n\nErrors:\n")>> \o WriteAll(err_reports, g_path, g_src)
            \o <<Lit("\n")>>

\* C6: a handler on which nothing was recorded (only setters, or nothing,
\* were called) returns Ok from results(); lexer and grammar handler alike.
C6_EmptyIsOk ==
    /\ (last.op = "lex_results" /\ done \cap LexRecordTags = {})
       => last.ret = Ok
    /\ (last.op = "grammar_results"
            /\ done \cap (GrammarErrorTags \cup {"grammar_warning"}) = {})
       => last.ret = Ok

C6_Witness ==
    /\ last.op = "lex_results"
    /\ done = {"lex_results"}
    /\ l_path = LEX_FILENAME
    /\ last.ret = Ok

\* C7: after missing_in_lexer with a non-empty set, results() of the lexer
\* handler returns Err, and the report that call recorded carries the
\* "used in the grammar but not defined in the lexer" message and a note
\* naming every token of the set; missing_in_parser likewise, with the
\* "used in the lexer but not defined in the grammar" message.
NotesEveryName(report, names) ==
    /\ report.note # None
    /\ Elems(names) \subseteq Elems(Head(report.note))
C7_MissingTokens ==
    /\ (last.op = "lex_results"
          /\ ("missing_in_lexer_names" \in done \/ "missing_in_parser_names" \in done))
       => ~last.ret.ok
    /\ (last.op = "missing_in_lexer" /\ last.names # <<>>)
       => /\ reports # <<>>
          /\ reports[Len(reports)].msg = MISSING_IN_LEXER_MSG
          /\ NotesEveryName(reports[Len(reports)], last.names)
    /\ (last.op = "missing_in_parser" /\ last.names # <<>>)
       => /\ reports # <<>>
          /\ reports[Len(reports)].msg = MISSING_IN_PARSER_MSG
          /\ NotesEveryName(reports[Len(reports)], last.names)

C7_Witness ==
    /\ last.op = "lex_results"
    /\ ~last.ret.ok
    /\ \E i \in 1..Len(reports) :
          /\ reports[i].msg = MISSING_IN_LEXER_MSG
          /\ NotesEveryName(reports[i], <<"NUM", "ID">>)
\* A step that is a call of op.
Calls(op) == ncalls' = ncalls + 1 /\ last'.op = op
\* The reports a step appended to err_reports.
NewErrReports == SubSeq(err_reports', Len(err_reports) + 1, Len(err_reports'))

\* C8: within one on_unexpected_conflicts call the appended reports are one
\* per conflict: the reduce/reduce reports first, in the order of
\* rr_conflicts(), then the shift/reduce reports, in the order of
\* sr_conflicts(); none is dropped, duplicated or moved.
C8_ConflictOrder ==
    [][ Calls("on_unexpected_conflicts") =>
          LET rr == last'.rr
              sr == last'.sr
          IN /\ IsPrefix(err_reports, err_reports')
             /\ Len(NewErrReports) = Len(rr) + Len(sr)
             /\ \A i \in 1..Len(rr) :
                   NewErrReports[i] = RRReport(Grm, g_path, rr[i])
             /\ \A j \in 1..Len(sr) :
                   /\ NewErrReports[Len(rr) + j].msg = "Shift/Reduce"
                   /\ NewErrReports[Len(rr) + j].offset =
                        rule_name_span(Grm, prod_to_rule(Grm, sr[j][2])).start
      ]_vars

\* C9 as claimed: once results() has been called the handler is Finalized:
\* no later call changes its recorded state, and results() is not called
\* a second time.
C9_Finalized ==
    [][ /\ "lex_results" \in done
           => (UNCHANGED lvars /\ ~Calls("lex_results"))
        /\ "grammar_results" \in done
           => (UNCHANGED gvars /\ ~Calls("grammar_results"))
      ]_vars

\* C9 as amended: the handlers have no Finalized state.  results() changes
\* no field of either handler, and a recording call made after results()
\* is accepted and appends its reports as it does before results().
C9_NoFinalizedState ==
    [][ /\ (Calls("lex_results") \/ Calls("grammar_results"))
           => UNCHANGED <<lvars, gvars>>
        /\ ("lex_results" \in done /\ Calls("on_lex_build_error"))
           => reports' = reports \o LexErrorReports(l_path, last'.errs)
        /\ ("lex_results" \in done
              /\ (Calls("missing_in_lexer") \/ Calls("missing_in_parser")))
           => (Len(reports') = Len(reports) + 1 /\ IsPrefix(reports, reports'))
        /\ ("grammar_results" \in done /\ Calls("on_grammar_error"))
           => err_reports' = err_reports \o GrammarReports("Error", g_path, last'.errs)
        /\ ("grammar_results" \in done /\ Calls("on_grammar_warning"))
           => warning_reports' =
                warning_reports \o GrammarReports("Warning", g_path, last'.errs)
        /\ ("grammar_results" \in done /\ Calls("on_unexpected_conflicts"))
           => /\ IsPrefix(err_reports \o RRLoop(Grm, g_path, last'.rr), err_reports')
              /\ errors' = PushNewline(errors, last'.rr)
      ]_vars

C9_Witness ==
    /\ "grammar_results" \in done
    /\ last.op = "on_grammar_error"
    /\ last.errs # <<>>
    /\ Len(err_reports) > Len(last.errs)

\* C10: recording is append-only: every step leaves the reports already
\* recorded in place and in order, as a prefix of each report list.
C10_AppendOnly ==
    [][ /\ IsPrefix(reports, reports')
        /\ IsPrefix(err_reports, err_reports')
        /\ IsPrefix(warning_reports, warning_reports')
      ]_vars

C10_Witness ==
    /\ last.op = "on_unexpected_conflicts"
    /\ last.rr # <<>>
    /\ last.sr # <<>>
    /\ "grammar_error" \in done
    /\ Len(err_reports) > Len(last.rr) + Len(last.sr)

\* C11: the one aggregated failure holds every problem recorded in the
\* build: whenever a report was recorded as an error, results() returns Err
\* and its body renders every recorded report (warnings and errors) exactly
\* once, in recording order; the lexer handler likewise.
C11_EveryProblemRendered ==
    /\ (last.op = "lex_results" /\ reports # <<>>)
       => (~last.ret.ok /\ ReportsIn(last.ret.body) = reports)
    /\ (last.op = "grammar_results" /\ err_reports # <<>>)
       => /\ ~last.ret.ok
          /\ ReportsIn(last.ret.body) = warning_reports \o err_reports

\* C12: pidx_prods_data is total.  For a production index at or beyond the
\* number of productions of the AST it returns empty name and span lists;
\* for an index in range it returns one (quoted name, span) pair per symbol
\* of that production, in the order of the symbols, the two lists being of
\* equal length.
C12_ProdsDataTotal ==
    \A k \in 1..Len(prods_data) :
        LET pidx  == prods_data[k][1]
            names == prods_data[k][2]
            spans == prods_data[k][3]
        IN /\ Len(names) = Len(spans)
           /\ pidx >= Len(Ast.prods) => (names = <<>> /\ spans = <<>>)
           /\ pidx < Len(Ast.prods) =>
                LET symbols == Ast.prods[pidx + 1].symbols
                IN /\ Len(names) = Len(symbols)
                   /\ \A i \in 1..Len(symbols) :
                         /\ names[i] = <<"'", symbols[i].name, "'">>
                         /\ spans[i] = symbols[i].span

\* Both an out-of-range index and a production of two symbols were looked up.
C12_Witness ==
    /\ last.op = "on_unexpected_conflicts"
    /\ \E k \in 1..Len(prods_data) :
          prods_data[k][1] >= Len(Ast.prods) /\ prods_data[k][2] = <<>>
    /\ \E k \in 1..Len(prods_data) :
          prods_data[k][1] < Len(Ast.prods) /\ Len(prods_data[k][2]) = 2

\* The reports a step appended for its shift/reduce conflicts.
NewSRReports ==
    SubSeq(err_reports', Len(err_reports) + Len(last'.rr) + 1, Len(err_reports'))
\* The labels every shift/reduce report ends with: one per symbol of the
\* reduced production, in symbol order.
SymbolLabelsOk(report, c) ==
    LET symbols == IF c[2] < Len(Ast.prods) THEN Ast.prods[c[2] + 1].symbols
                   ELSE <<>>
    IN /\ Len(report.labels) = 2 + Len(symbols)
       /\ \A i \in 1..Len(symbols) : report.labels[2 + i].span = symbols[i].span

\* C13: in every shift/reduce report the first label is the span of the
\* rule owning the reduced production with text "Reduced rule", the second
\* the span of the shifted token with text "Shifted", then one label per
\* symbol of the reduced production; the message is "Shift/Reduce".
C13_ShiftReduceLabels ==
    [][ Calls("on_unexpected_conflicts") =>
          \A j \in 1..Len(NewSRReports) :
              LET report == NewSRReports[j]
                  c == last'.sr[j]
              IN /\ report.msg = "Shift/Reduce"
                 /\ SymbolLabelsOk(report, c)
                 /\ report.labels[1].text = "Reduced rule"
                 /\ report.labels[1].span =
                      rule_name_span(Grm, prod_to_rule(Grm, c[2]))
                 /\ report.labels[2].text = "Shifted"
                 /\ report.labels[2].span = Head(token_span(Grm, c[1]))
      ]_vars

\* What the code does: the two leading labels are in the other order.
C13_ShiftReduceLabelsAsBuilt ==
    [][ Calls("on_unexpected_conflicts") =>
          \A j \in 1..Len(NewSRReports) :
              LET report == NewSRReports[j]
                  c == last'.sr[j]
              IN /\ report.msg = "Shift/Reduce"
                 /\ SymbolLabelsOk(report, c)
                 /\ report.labels[1].text = "Shifted"
                 /\ report.labels[1].span = Head(token_span(Grm, c[1]))
                 /\ report.labels[2].text = "Reduced rule"
                 /\ report.labels[2].span =
                      rule_name_span(Grm, prod_to_rule(Grm, c[2]))
      ]_vars

C13_Witness ==
    /\ last.op = "on_unexpected_conflicts"
    /\ last.sr # <<>>
    /\ \E i \in 1..Len(err_reports) :
          /\ err_reports[i].msg = "Shift/Reduce"
          /\ Len(err_reports[i].labels) = 4
          /\ err_reports[i].labels[1].text = "Shifted"

\* C14: a shift/reduce conflict whose token has no span or no name does not
\* abort on_unexpected_conflicts: the call returns, every conflict of the
\* set gets its report, and the report of such a conflict has no "Shifted"
\* label.
C14_SpanlessTokenReported ==
    [][ Calls("on_unexpected_conflicts") =>
          /\ ~panicked'
          /\ Len(NewSRReports) = Len(last'.sr)
          /\ \A j \in 1..Len(last'.sr) :
                SRPanics(Grm, last'.sr[j]) =>
                    \A k \in 1..Len(NewSRReports[j].labels) :
                        NewSRReports[j].labels[k].text # "Shifted"
      ]_vars

\* C15: every reduce/reduce report has severity Error, message
\* "Reduce/Reduce" and exactly two labels: the name span of the rule owning
\* the left production with text "1st Reduce", then the name span of the
\* rule owning the right production with text "2nd Reduce" (the same span
\* twice when both productions belong to one rule).
C15_ReduceReduceLabels ==
    [][ Calls("on_unexpected_conflicts") =>
          /\ Len(NewErrReports) >= Len(last'.rr)
          /\ \A i \in 1..Len(last'.rr) :
                LET report == NewErrReports[i]
                    left  == Grm.rule_name_span[Grm.prod_to_rule[last'.rr[i][1] + 1] + 1]
                    right == Grm.rule_name_span[Grm.prod_to_rule[last'.rr[i][2] + 1] + 1]
                IN /\ report.kind = "Error"
                   /\ report.msg = "Reduce/Reduce"
                   /\ Len(report.labels) = 2
                   /\ report.labels[1].span = left
                   /\ report.labels[1].text = "1st Reduce"
                   /\ report.labels[2].span = right
                   /\ report.labels[2].text = "2nd Reduce"
      ]_vars

\* A call that reported a conflict between two rules and one inside a rule.
C15_Witness ==
    /\ last.op = "on_unexpected_conflicts"
    /\ Len(last.rr) = 2
    /\ \E i \in 1..Len(err_reports) :
          /\ err_reports[i].msg = "Reduce/Reduce"
          /\ err_reports[i].labels[1].span # err_reports[i].labels[2].span
    /\ \E i \in 1..Len(err_reports) :
          /\ err_reports[i].msg = "Reduce/Reduce"
          /\ err_reports[i].labels[1].span = err_reports[i].labels[2].span

C17_EmptyConflictsNoEffect ==
    [][ (Calls("on_unexpected_conflicts") /\ last'.rr = <<>> /\ last'.sr = <<>>)
          => (UNCHANGED gvars /\ ~panicked')
      ]_vars

\* An empty conflict set arrived after reports and error text were recorded.
C17_Witness ==
    /\ last.op = "on_unexpected_conflicts"
    /\ last.rr = <<>>
    /\ last.sr = <<>>
    /\ err_reports # <<>>
    /\ errors # <<>>

\* C18: on_unexpected_conflicts appends the one blank-line separator to the
\* errors text only when both the reduce/reduce set and the shift/reduce
\* set of the call are non-empty; with conflicts of one kind only it
\* appends nothing.
C18_SeparatorOnlyBetweenBlocks ==
    [][ Calls("on_unexpected_conflicts") =>
          errors' = IF last'.rr # <<>> /\ last'.sr # <<>>
                    THEN Append(errors, "\n") ELSE errors
      ]_vars

\* The comma-separated entries of a note: its fragments but the ", ".
RECURSIVE NoteEntries(_)
NoteEntries(note) ==
    IF note = <<>> THEN <<>>
    ELSE (IF Head(note) = ", " THEN <<>> ELSE <<Head(note)>>)
         \o NoteEntries(Tail(note))

\* C19: each call of missing_in_lexer or missing_in_parser appends exactly
\* one report; for the empty set the report has no note, and for a set of
\* n >= 1 names the note lists the names in iteration order, each exactly
\* once: n comma-separated entries.
C19_MissingNoteEntries ==
    [][ (Calls("missing_in_lexer") \/ Calls("missing_in_parser")) =>
          /\ Len(reports') = Len(reports) + 1
          /\ IsPrefix(reports, reports')
          /\ LET note == reports'[Len(reports')].note
             IN IF last'.names = <<>> THEN note = None
                ELSE note # None /\ NoteEntries(Head(note)) = last'.names
      ]_vars

\* C20: in every reachable state of the grammar handler the warnings text is
\* empty and the errors text is non-empty exactly when an earlier
\* on_unexpected_conflicts call carried a reduce/reduce conflict; so
\* results() returns Err exactly when a reduce/reduce conflict was
\* reported, whatever the flag, the recorded warnings, the recorded grammar
\* errors and the shift/reduce conflicts are.
C20_ErrIffReduceReduce ==
    /\ warnings = <<>>
    /\ errors # <<>> <=> "rr_conflict" \in done
    /\ last.op = "grammar_results" =>
          /\ last.ret.ok <=> "rr_conflict" \notin done
          /\ ~last.ret.ok =>
                last.ret.body = <<Lit("\n")>> \o WriteAll(err_reports, g_path, g_src)

\* Ok although the flag is set and a warning, a grammar error or a
\* shift/reduce conflict was recorded.
C20_Witness ==
    /\ last.op = "grammar_results"
    /\ last.ret = Ok
    /\ warnings_are_errors
    /\ done \cap {"grammar_warning", "grammar_error", "sr_conflict"} # {}
====
